---- MODULE Spec2Model ----
(***************************************************************************)
(* BioGate: facial access control backend.                                 *)
(*                                                                         *)
(* Two recognition cycles live in the sources:                             *)
(*   - recognize (src/app/model_utils.py): reads every enrolled vector     *)
(*     with get_vectors, takes the argmax of the cosine similarities and   *)
(*     writes one row of historial_accesos with log_access;                *)
(*   - the /clasificar endpoint (src/app/main.py): stores the upload in a  *)
(*     temporary file, extracts the face, and asks the database for the    *)
(*     best row above the threshold through the shared connection conn.    *)
(*                                                                         *)
(* Similarities and thresholds are kept in hundredths (0.6 is 60), and     *)
(* embeddings are small integer vectors whose norms are whole numbers, so  *)
(* that the cosine is computed exactly.                                    *)
(***************************************************************************)
EXTENDS Integers, Sequences, FiniteSets

VARIABLES
    activo,       \* personas.activo, per id_persona
    vectores,     \* the rows of vectores_identificacion
    historial,    \* the rows of historial_accesos, in insertion order
    conn,         \* state of the module-level psycopg2 connection
    temporales,   \* temporary image files that exist on disk
    respuestas,   \* what each finished cycle returned to its caller
    momento,      \* schedule part: the moment being classified
    horario,      \* schedule part: the identity's row of horarios_persona
    turno,        \* schedule part: what resolve returned
    asistencia    \* schedule part: what classify returned

vars == <<activo, vectores, historial, conn, temporales, respuestas,
          momento, horario, turno, asistencia>>

varsHorario == <<momento, horario, turno, asistencia>>
varsCiclo == <<activo, vectores, historial, conn, temporales, respuestas>>

----------------------------------------------------------------------------
(* Bounds of the model *)

MaxVectores == 2
MaxCiclos == 2

(* Python's None, SQL's NULL *)
None == -999

Personas == {1, 2}

(* Enrolled embeddings and query embeddings. Their norms are 10 and 5, and *)
(* the cosines between a query and an enrolled vector are 1.0, 0.6, 0.0    *)
(* and -0.8.                                                               *)
VectoresEnrolables == {<<10, 0>>, <<6, 8>>}
Embeddings == {<<10, 0>>, <<0, -5>>}

(* threshold: recognize's default is 0.6; /clasificar accepts 0.5 .. 0.9 *)
Umbrales == {50, 60}

Filas == [id_persona : Personas, vector : VectoresEnrolables]

----------------------------------------------------------------------------
(* sklearn's cosine_similarity and pgvector's 1 - (a <=> b) *)

Dot(u, v) == u[1] * v[1] + u[2] * v[2]

(* Whole square roots of the squared norms that occur *)
Raices ==
    [x \in 0..200 |-> CHOOSE n \in 0..14 : n * n <= x /\ x < (n + 1) * (n + 1)]

Norm(u) == Raices[Dot(u, u)]

cosine_similarity(u, v) == (100 * Dot(u, v)) \div (Norm(u) * Norm(v))

(* an argmax that takes the last row read *)
argmax_ultimo(sims) == Len(sims)

(* numpy.argmax: the first index that holds the maximum *)
argmax(sims) ==
    CHOOSE i \in 1..Len(sims) :
        /\ \A j \in 1..Len(sims) : sims[j] <= sims[i]
        /\ \A j \in 1..(i - 1) : sims[j] < sims[i]

(* The orders in which a SELECT without ORDER BY may return the rows *)
Ordenes(S) ==
    {s \in [1..Cardinality(S) -> S] :
        \A i, j \in 1..Cardinality(S) : i # j => s[i] # s[j]}

(* get_vectors: every row of vectores_identificacion, in the order the     *)
(* storage returns them (the query has no ORDER BY)                        *)
get_vectors == Ordenes(vectores)

(* a log_access that writes over the latest row instead of inserting *)
log_access_sobrescribe(id_persona, confianza, resultado) ==
    LET fila == [id_persona |-> id_persona,
                 resultado |-> resultado,
                 confianza |-> confianza]
    IN IF historial = <<>>
       THEN <<fila>>
       ELSE [historial EXCEPT ![Len(historial)] = fila]

(* log_access: INSERT INTO historial_accesos (id_persona, resultado, confianza) *)
log_access(id_persona, confianza, resultado) ==
    Append(historial, [id_persona |-> id_persona,
                       resultado |-> resultado,
                       confianza |-> confianza])

----------------------------------------------------------------------------
(* Images a caller may upload; a face carries the embedding FaceNet gives it *)

SinEmbedding == <<0, 0>>

Imagenes ==
    {[tipo |-> t, embedding |-> SinEmbedding] :
        t \in {"ilegible", "sin_rostro", "area_invalida"}}
    \cup {[tipo |-> "rostro", embedding |-> e] : e \in Embeddings}

Respuesta(via, imagen, umbral, fallo, status, id, sim, code, detail, n) ==
    [via |-> via, imagen |-> imagen, umbral |-> umbral, fallo |-> fallo,
     status |-> status, id_persona |-> id, similitud |-> sim,
     status_code |-> code, detail |-> detail, registros |-> n,
     id_acceso |-> IF n = 0 THEN None ELSE Len(historial) + 1]

----------------------------------------------------------------------------
(* recognize(embedding, threshold), src/app/model_utils.py *)

recognize_decide(sim, threshold) == sim > threshold

recognize(embedding, threshold) ==
    /\ Len(respuestas) < MaxCiclos
    /\ \E vectors \in get_vectors :
        LET imagen == [tipo |-> "rostro", embedding |-> embedding] IN
        IF vectors = <<>>
        THEN \* zip(*[]) yields nothing to unpack into ids, stored_vectors
             /\ historial' = historial
             /\ respuestas' = Append(respuestas,
                    Respuesta("recognize", imagen, threshold, FALSE, "error",
                              None, None, None, "ValueError", 0))
        ELSE LET sims == [i \in 1..Len(vectors) |->
                             cosine_similarity(embedding, vectors[i].vector)]
                 max_idx == argmax(sims)
             IN IF recognize_decide(sims[max_idx], threshold)
                THEN /\ historial' = log_access(vectors[max_idx].id_persona,
                                                sims[max_idx], "Exito")
                     /\ respuestas' = Append(respuestas,
                            Respuesta("recognize", imagen, threshold, FALSE,
                                      "success", vectors[max_idx].id_persona,
                                      sims[max_idx], None, "", 1))
                ELSE /\ historial' = log_access(None, sims[max_idx], "Desconocido")
                     /\ respuestas' = Append(respuestas,
                            Respuesta("recognize", imagen, threshold, FALSE,
                                      "no_match", None, sims[max_idx], None, "", 1))
    /\ UNCHANGED <<activo, vectores, conn, temporales>>
    /\ UNCHANGED varsHorario

Recognize == \E e \in Embeddings, th \in Umbrales : recognize(e, th)

----------------------------------------------------------------------------
(* /clasificar, src/app/main.py *)

(* extraer_rostro: the HTTPException it raises, or "ok" *)
extraer_rostro(imagen) ==
    CASE imagen.tipo = "ilegible" -> [status_code |-> 400, detail |-> "No se pudo leer la imagen"]
      [] imagen.tipo = "sin_rostro" -> [status_code |-> 404, detail |-> "No se detectaron rostros"]
      [] imagen.tipo = "area_invalida" -> [status_code |-> 400, detail |-> "Area de rostro invalida"]
      [] OTHER -> [status_code |-> 200, detail |-> "ok"]

(* The rows the SELECT of buscar_coincidencia may return: LIMIT 1 of the   *)
(* rows above the threshold, ordered by similarity, so any row of maximal  *)
(* similarity among them; the empty set when fetchone() returns None.      *)
buscar_filtro(sim, threshold) == sim > threshold

buscar_coincidencia(embedding, threshold) ==
    LET sobre == {f \in vectores :
                    buscar_filtro(cosine_similarity(embedding, f.vector), threshold)}
    IN {f \in sobre :
            \A g \in sobre : cosine_similarity(embedding, g.vector)
                                <= cosine_similarity(embedding, f.vector)}

clasificar(imagen, threshold, fallo) ==
    /\ Len(respuestas) < MaxCiclos
    /\ LET temp_path == Len(respuestas) + 1
           cara == extraer_rostro(imagen)
       IN IF cara.status_code # 200
          THEN \* HTTPException caught by "except Exception" and raised as 500
               /\ temporales' = temporales \cup {temp_path}
               /\ conn' = conn
               /\ respuestas' = Append(respuestas,
                      Respuesta("clasificar", imagen, threshold, FALSE, "error",
                                None, None, 500, cara.detail, 0))
          ELSE IF conn = "aborted"
          THEN \* the transaction an earlier request left aborted: execute raises
               /\ temporales' = temporales \cup {temp_path}
               /\ conn' = conn
               /\ respuestas' = Append(respuestas,
                      Respuesta("clasificar", imagen, threshold, FALSE, "error",
                                None, None, 500, "InFailedSqlTransaction", 0))
          ELSE IF fallo
          THEN \* cursor.execute raises; nothing rolls the connection back
               /\ temporales' = temporales \cup {temp_path}
               /\ conn' = "aborted"
               /\ respuestas' = Append(respuestas,
                      Respuesta("clasificar", imagen, threshold, TRUE, "error",
                                None, None, 500, "query error", 0))
          ELSE LET filas == buscar_coincidencia(imagen.embedding, threshold) IN
               /\ temporales' = temporales    \* os.remove(temp_path)
               /\ conn' = conn
               /\ IF filas = {}
                  THEN respuestas' = Append(respuestas,
                          Respuesta("clasificar", imagen, threshold, fallo,
                                    "no_match", None, None, 200, "", 0))
                  ELSE \E resultado \in filas :
                          respuestas' = Append(respuestas,
                              Respuesta("clasificar", imagen, threshold, fallo,
                                        "success", resultado.id_persona,
                                        cosine_similarity(imagen.embedding, resultado.vector),
                                        200, "", 0))
    /\ UNCHANGED <<activo, vectores, historial>>
    /\ UNCHANGED varsHorario

Clasificar ==
    \E imagen \in Imagenes, th \in Umbrales, fallo \in BOOLEAN :
        clasificar(imagen, th, fallo)

----------------------------------------------------------------------------

(* Work schedules: resolve and classify (sections 4.3 and 4.4 of the      *)
(* specification). Times of day are minutes after midnight; weekdays are   *)
(* 0 (Monday) .. 6 (Sunday); overtime is kept in minutes (60 is 1.0 hour). *)

MinutosPorDia == 1440

(* The grace window after the end of the shift: 2 hours *)
GraciaSalida == 120

(* The overtime of an appearance on a day that is not a work day: 8.0 hours *)
HorasExtrasDiaCompleto == 480

LunesAViernes == 0..4

(* The documented default: 08:00 - 17:00, 10 minutes of tolerance, Mon-Fri *)
TurnoPorDefecto ==
    [hora_entrada |-> 480, hora_salida |-> 1020, tolerancia |-> 10,
     dias_laborales |-> LunesAViernes]

Configurado(E, X, T, dias) ==
    [configurado |-> TRUE, hora_entrada |-> E, hora_salida |-> X,
     tolerancia |-> T, dias_laborales |-> dias]

(* A person without a row in horarios_persona *)
SinHorario ==
    [configurado |-> FALSE, hora_entrada |-> 0, hora_salida |-> 0,
     tolerancia |-> 0, dias_laborales |-> {}]

(* The rows of horarios_persona a person may have: the default written     *)
(* out, a weekend shift, a shift shorter than its tolerance, a shift whose *)
(* grace window passes midnight, a shift that starts at midnight, and a    *)
(* night shift 22:00 - 06:00, whose exit is not after its entry.           *)
Horarios ==
    {SinHorario,
     Configurado(480, 1020, 10, {5, 6}),
     Configurado(480, 485, 10, LunesAViernes),
     Configurado(600, 1380, 30, LunesAViernes),
     Configurado(0, 60, 0, 0..6),
     Configurado(1320, 360, 10, LunesAViernes)}

Momentos == [dia : {0, 4, 5}, minuto : 0..(MinutosPorDia - 1)]

SinMomento == [dia |-> 0, minuto |-> 0]

SinResolver ==
    [resuelto |-> FALSE, laboral |-> FALSE,
     hora_entrada |-> 0, hora_salida |-> 0, tolerancia |-> 0]

NotAWorkDay ==
    [resuelto |-> TRUE, laboral |-> FALSE,
     hora_entrada |-> 0, hora_salida |-> 0, tolerancia |-> 0]

Shift(E, X, T) ==
    [resuelto |-> TRUE, laboral |-> TRUE,
     hora_entrada |-> E, hora_salida |-> X, tolerancia |-> T]

SinClasificar ==
    [hecho |-> FALSE, estado_registro |-> "", horas_extras |-> 0,
     es_dia_laboral |-> FALSE]

Clasificacion(label, overtime, is_work_day) ==
    [hecho |-> TRUE, estado_registro |-> label, horas_extras |-> overtime,
     es_dia_laboral |-> is_work_day]

(* resolve that forgets the weekday *)
resolve_sin_dia(h, m) ==
    LET cfg == IF h.configurado THEN h ELSE TurnoPorDefecto IN
    Shift(cfg.hora_entrada, cfg.hora_salida, cfg.tolerancia)

(* resolve(identity, moment) -> Shift | NotAWorkDay *)
resolve(h, m) ==
    LET cfg == IF h.configurado THEN h ELSE TurnoPorDefecto IN
    IF m.dia \notin cfg.dias_laborales
    THEN NotAWorkDay
    ELSE Shift(cfg.hora_entrada, cfg.hora_salida, cfg.tolerancia)

(* classify with the end of the tolerance window exclusive *)
classify_tolerancia_exclusiva(m, shift) ==
    IF ~shift.laboral
    THEN Clasificacion("HORAS_EXTRAS", HorasExtrasDiaCompleto, FALSE)
    ELSE LET t == m.minuto
             E == shift.hora_entrada
             X == shift.hora_salida
             limit_entry == E + shift.tolerancia
             limit_exit == X + GraciaSalida
         IN IF t < E THEN Clasificacion("HORAS_EXTRAS", E - t, TRUE)
            ELSE IF t < limit_entry THEN Clasificacion("ENTRADA", 0, TRUE)
            ELSE IF t <= X THEN Clasificacion("RETRASO", 0, TRUE)
            ELSE IF t <= limit_exit THEN Clasificacion("SALIDA", 0, TRUE)
            ELSE Clasificacion("HORAS_EXTRAS", t - limit_exit, TRUE)

(* classify with the end of the grace window exclusive *)
classify_gracia_exclusiva(m, shift) ==
    IF ~shift.laboral
    THEN Clasificacion("HORAS_EXTRAS", HorasExtrasDiaCompleto, FALSE)
    ELSE LET t == m.minuto
             E == shift.hora_entrada
             X == shift.hora_salida
             limit_entry == E + shift.tolerancia
             limit_exit == X + GraciaSalida
         IN IF t < E THEN Clasificacion("HORAS_EXTRAS", E - t, TRUE)
            ELSE IF t <= limit_entry THEN Clasificacion("ENTRADA", 0, TRUE)
            ELSE IF t <= X THEN Clasificacion("RETRASO", 0, TRUE)
            ELSE IF t < limit_exit THEN Clasificacion("SALIDA", 0, TRUE)
            ELSE Clasificacion("HORAS_EXTRAS", t - limit_exit, TRUE)

(* classify that measures the early overtime from the end of the tolerance *)
classify_extras_desde_tolerancia(m, shift) ==
    IF ~shift.laboral
    THEN Clasificacion("HORAS_EXTRAS", HorasExtrasDiaCompleto, FALSE)
    ELSE LET t == m.minuto
             E == shift.hora_entrada
             X == shift.hora_salida
             limit_entry == E + shift.tolerancia
             limit_exit == X + GraciaSalida
         IN IF t < E THEN Clasificacion("HORAS_EXTRAS", limit_entry - t, TRUE)
            ELSE IF t <= limit_entry THEN Clasificacion("ENTRADA", 0, TRUE)
            ELSE IF t <= X THEN Clasificacion("RETRASO", 0, TRUE)
            ELSE IF t <= limit_exit THEN Clasificacion("SALIDA", 0, TRUE)
            ELSE Clasificacion("HORAS_EXTRAS", t - limit_exit, TRUE)

(* classify(moment, shift) -> (label, overtime_hours, is_work_day) *)
classify(m, shift) ==
    IF ~shift.laboral
    THEN Clasificacion("HORAS_EXTRAS", HorasExtrasDiaCompleto, FALSE)
    ELSE LET t == m.minuto
             E == shift.hora_entrada
             X == shift.hora_salida
             limit_entry == E + shift.tolerancia
             limit_exit == X + GraciaSalida
         IN IF t < E THEN Clasificacion("HORAS_EXTRAS", E - t, TRUE)
            ELSE IF t <= limit_entry THEN Clasificacion("ENTRADA", 0, TRUE)
            ELSE IF t <= X THEN Clasificacion("RETRASO", 0, TRUE)
            ELSE IF t <= limit_exit THEN Clasificacion("SALIDA", 0, TRUE)
            ELSE Clasificacion("HORAS_EXTRAS", t - limit_exit, TRUE)

Resolver ==
    /\ ~turno.resuelto
    /\ turno' = resolve(horario, momento)
    /\ UNCHANGED <<momento, horario, asistencia>>
    /\ UNCHANGED varsCiclo

ClasificarAsistencia ==
    /\ turno.resuelto
    /\ ~asistencia.hecho
    /\ asistencia' = classify(momento, turno)
    /\ UNCHANGED <<momento, horario, turno>>
    /\ UNCHANGED varsCiclo

InitCicloQuieto ==
    /\ activo = [p \in Personas |-> TRUE]
    /\ vectores = {}
    /\ historial = <<>>
    /\ conn = "ok"
    /\ temporales = {}
    /\ respuestas = <<>>

InitHorario ==
    /\ horario \in Horarios
    /\ momento \in Momentos
    /\ turno = SinResolver
    /\ asistencia = SinClasificar
    /\ InitCicloQuieto

NextHorario == Resolver \/ ClasificarAsistencia

SpecHorario == InitHorario /\ [][NextHorario]_vars

----------------------------------------------------------------------------

(* The history endpoints of src/main.py. Both only SELECT: they return a   *)
(* view of historial_accesos and leave every table as it was.              *)

Estatus(resultado) == IF resultado = "Exito" THEN "PERMITIDO" ELSE "DENEGADO"

(* The id_acceso of the rows, newest first (ORDER BY ha.fecha DESC) *)
MasRecientes == [i \in 1..Len(historial) |-> Len(historial) + 1 - i]

(* GET /historial-accesos/ with the filter on resultado and the limit; the *)
(* filters on name and dates are left at their defaults                    *)
obtener_historial_accesos(resultado, limite) ==
    LET pasa(id) ==
            CASE resultado = "PERMITIDO" -> historial[id].resultado = "Exito"
              [] resultado = "DENEGADO" -> historial[id].resultado # "Exito"
              [] OTHER -> TRUE
        ids == SelectSeq(MasRecientes, pasa)
        n == IF Len(ids) < limite THEN Len(ids) ELSE limite
    IN [k \in 1..n |->
           [id_acceso |-> ids[k],
            id_persona |-> historial[ids[k]].id_persona,
            resultado |-> Estatus(historial[ids[k]].resultado)]]

(* GET /historial-accesos/{id_acceso}: the row, or 404 *)
obtener_detalle_acceso(id_acceso) ==
    IF id_acceso \notin DOMAIN historial
    THEN [status_code |-> 404, id_acceso |-> id_acceso, estatus |-> "",
          nivel_confianza |-> None]
    ELSE LET acceso == historial[id_acceso] IN
         [status_code |-> 200, id_acceso |-> id_acceso,
          estatus |-> Estatus(acceso.resultado),
          nivel_confianza |->
              IF acceso.confianza = None \/ acceso.confianza = 0
              THEN None
              ELSE acceso.confianza * 100]

ObtenerHistorialAccesos ==
    \E resultado \in {"", "PERMITIDO", "DENEGADO"}, limite \in {1, 20} :
        /\ Len(obtener_historial_accesos(resultado, limite)) <= limite
        /\ UNCHANGED vars

ObtenerDetalleAcceso ==
    \E id_acceso \in 1..MaxCiclos :
        /\ obtener_detalle_acceso(id_acceso).status_code \in {200, 404}
        /\ UNCHANGED vars

----------------------------------------------------------------------------

InitHorarioQuieto ==
    /\ momento = SinMomento
    /\ horario = SinHorario
    /\ turno = SinResolver
    /\ asistencia = SinClasificar

Init ==
    /\ activo \in [Personas -> BOOLEAN]
    /\ vectores \in {S \in SUBSET Filas : Cardinality(S) <= MaxVectores}
    /\ historial = <<>>
    /\ conn = "ok"
    /\ temporales = {}
    /\ respuestas = <<>>
    /\ InitHorarioQuieto

Next == Recognize \/ Clasificar

Spec == Init /\ [][Next]_vars

(* The recognition cycles together with the history endpoints *)
NextAuditoria ==
    \/ Recognize
    \/ Clasificar
    \/ ObtenerHistorialAccesos
    \/ ObtenerDetalleAcceso

SpecAuditoria == Init /\ [][NextAuditoria]_vars

----------------------------------------------------------------------------
(* Recognition cycles: what the claims speak about *)

(* The cycle went as far as the decision *)
Decidio(r) == r.status \in {"success", "no_match"}

(* The cycle accepted: recognize returned an identity and logged Exito,    *)
(* /clasificar answered "success"                                          *)
Acepta(r) == r.status = "success"

Similitudes(e) == {cosine_similarity(e, f.vector) : f \in vectores}

MejorSimilitud(e) ==
    CHOOSE s \in Similitudes(e) : \A x \in Similitudes(e) : x <= s

(* The enrolled rows of maximal similarity to e *)
Mejores(e) ==
    {f \in vectores : cosine_similarity(e, f.vector) = MejorSimilitud(e)}

(* C1: a cycle accepts if and only if the best candidate's similarity is   *)
(* strictly greater than the threshold and that candidate's identity is    *)
(* active: an accepted identity is a best candidate above the threshold    *)
(* and active, and a best similarity above the threshold whose candidates  *)
(* are all active is accepted.                                             *)
C1_AceptaSiiSuperaUmbralYActivo ==
    \A i \in DOMAIN respuestas :
        LET r == respuestas[i]
            e == r.imagen.embedding
        IN (Decidio(r) /\ vectores # {}) =>
            /\ Acepta(r) =>
                  /\ r.similitud = MejorSimilitud(e)
                  /\ r.similitud > r.umbral
                  /\ activo[r.id_persona]
            /\ (/\ MejorSimilitud(e) > r.umbral
                /\ \A f \in Mejores(e) : activo[f.id_persona]) => Acepta(r)

(* C2: every recognition cycle, whatever its outcome, writes exactly one   *)
(* access record.                                                          *)
C2_UnRegistroPorCiclo ==
    /\ \A i \in DOMAIN respuestas : respuestas[i].registros = 1
    /\ Len(historial) = Len(respuestas)

(* C3: when the best candidate exceeds the threshold and its identity is   *)
(* inactive, the cycle rejects, and its access record carries the matched  *)
(* identity and a reason that is not the one of a no-match.                *)
C3_InactivoRechazadoDistinguible ==
    \A i \in DOMAIN respuestas :
        LET r == respuestas[i]
            e == r.imagen.embedding
        IN (/\ Decidio(r)
            /\ vectores # {}
            /\ MejorSimilitud(e) > r.umbral
            /\ \A f \in Mejores(e) : ~activo[f.id_persona]) =>
            /\ ~Acepta(r)
            /\ r.registros = 1
            /\ r.id_acceso \in DOMAIN historial
            /\ historial[r.id_acceso].id_persona \in
                   {f.id_persona : f \in Mejores(e)}
            /\ historial[r.id_acceso].resultado \notin {"Exito", "Desconocido"}

(* C4: an image without a face, or one that cannot be read, ends the cycle *)
(* as a rejection surfaced to the caller (not as an internal error), and   *)
(* one access record with a null identity is written.                      *)
C4_SinRostroEsRechazoRegistrado ==
    \A i \in DOMAIN respuestas :
        LET r == respuestas[i] IN
        r.imagen.tipo \in {"sin_rostro", "ilegible"} =>
            /\ r.status_code # 500
            /\ r.registros = 1
            /\ r.id_acceso \in DOMAIN historial
            /\ historial[r.id_acceso].id_persona = None

(* C5: a query against an empty index is not an error: the cycle ends as   *)
(* an ordinary no-match rejection.                                         *)
C5_IndiceVacioEsNoMatch ==
    \A i \in DOMAIN respuestas :
        LET r == respuestas[i] IN
        (/\ vectores = {}
         /\ r.imagen.tipo = "rostro"
         /\ r.detail \notin {"query error", "InFailedSqlTransaction"}) =>
            r.status = "no_match"

(* C10: lowering the threshold never turns an accept into a reject: a      *)
(* cycle that accepts at a threshold accepts the same identity, for the    *)
(* same query, at every lower threshold.                                   *)
C10_MonotoniaDelUmbral ==
    \A i, j \in DOMAIN respuestas :
        LET r1 == respuestas[i]
            r2 == respuestas[j]
        IN (/\ r1.via = r2.via
            /\ r1.imagen = r2.imagen
            /\ Decidio(r1) /\ Decidio(r2)
            /\ r2.umbral < r1.umbral
            /\ Acepta(r1)) =>
            (Acepta(r2) /\ r2.id_persona = r1.id_persona)

(* What the code does keep of C10: the accept itself is monotone *)
AceptacionMonotona ==
    \A i, j \in DOMAIN respuestas :
        LET r1 == respuestas[i]
            r2 == respuestas[j]
        IN (/\ r1.via = r2.via
            /\ r1.imagen = r2.imagen
            /\ Decidio(r1) /\ Decidio(r2)
            /\ r2.umbral < r1.umbral
            /\ Acepta(r1)) =>
            (Acepta(r2) /\ r2.similitud = r1.similitud)

----------------------------------------------------------------------------
(* Schedules: what the claims speak about *)

(* The weekdays on which the identity works *)
DiasValidos(h) == IF h.configurado THEN h.dias_laborales ELSE LunesAViernes

(* classify ran on a resolved work-day shift with entry before exit *)
ClasificadoEnTurno ==
    /\ asistencia.hecho
    /\ turno.laboral
    /\ turno.hora_entrada < turno.hora_salida

(* The five windows of the claim C6, each with its label *)
VentanasDeC6 ==
    LET t == momento.minuto
        E == turno.hora_entrada
        X == turno.hora_salida
        limit_entry == E + turno.tolerancia
        limit_exit == X + 120
        label == asistencia.estado_registro
    IN /\ t < E => label = "HORAS_EXTRAS"
       /\ (E <= t /\ t <= limit_entry) => label = "ENTRADA"
       /\ (limit_entry < t /\ t <= X) => label = "RETRASO"
       /\ (X < t /\ t <= limit_exit) => label = "SALIDA"
       /\ t > limit_exit => label = "HORAS_EXTRAS"
       /\ asistencia.es_dia_laboral

(* C6, as stated: for a resolved shift with E < X and tolerance T, every   *)
(* time of day gets the label of its window (t < E, E <= t <= E + T,       *)
(* E + T < t <= X, X < t <= X + 2h, t > X + 2h) and is_work_day is true.   *)
C6_VentanasComoSeAfirma == ClasificadoEnTurno => VentanasDeC6

(* C6, amended: the same, for a shift whose tolerance window ends no later *)
(* than the shift (E + T <= X); with a longer tolerance the windows of     *)
(* ENTRADA and SALIDA overlap and ENTRADA wins.                            *)
C6_VentanasConToleranciaDentroDelTurno ==
    (/\ ClasificadoEnTurno
     /\ turno.hora_entrada + turno.tolerancia <= turno.hora_salida) =>
        VentanasDeC6

(* C6's case: a classification on the last minute of the tolerance window *)
C6_Testigo ==
    /\ ClasificadoEnTurno
    /\ turno.tolerancia > 0
    /\ turno.hora_entrada + turno.tolerancia <= turno.hora_salida
    /\ momento.minuto = turno.hora_entrada + turno.tolerancia
    /\ asistencia.estado_registro = "ENTRADA"

(* classify ran on the shift 08:00 - 17:00 with 10 minutes of tolerance *)
ClasificadoEnTurnoDeOchoACinco ==
    /\ asistencia.hecho
    /\ turno.laboral
    /\ turno.hora_entrada = 480
    /\ turno.hora_salida = 1020
    /\ turno.tolerancia = 10

EtiquetaA(minuto, label) ==
    momento.minuto = minuto => asistencia.estado_registro = label

(* C7, as stated: with entry 08:00, tolerance 10 and exit 17:00, 08:05 is  *)
(* ENTRADA, 08:15 and 16:59 are RETRASO, 17:30, 19:30 and 19:00 are        *)
(* SALIDA, 19:01 is HORAS_EXTRAS and 07:00 is HORAS_EXTRAS of 1.0 hour.    *)
C7_EjemplosComoSeAfirma ==
    ClasificadoEnTurnoDeOchoACinco =>
        /\ EtiquetaA(485, "ENTRADA")
        /\ EtiquetaA(495, "RETRASO")
        /\ EtiquetaA(1019, "RETRASO")
        /\ EtiquetaA(1050, "SALIDA")
        /\ EtiquetaA(1170, "SALIDA")
        /\ EtiquetaA(1140, "SALIDA")
        /\ EtiquetaA(1141, "HORAS_EXTRAS")
        /\ EtiquetaA(420, "HORAS_EXTRAS")
        /\ momento.minuto = 420 => asistencia.horas_extras = 60

(* C7, amended: the same examples, but 19:30 lies past the grace window    *)
(* that ends at 19:00 and is HORAS_EXTRAS, with half an hour of overtime.  *)
C7_EjemplosConDiecinueveTreintaExtra ==
    ClasificadoEnTurnoDeOchoACinco =>
        /\ EtiquetaA(485, "ENTRADA")
        /\ EtiquetaA(495, "RETRASO")
        /\ EtiquetaA(1019, "RETRASO")
        /\ EtiquetaA(1050, "SALIDA")
        /\ EtiquetaA(1170, "HORAS_EXTRAS")
        /\ momento.minuto = 1170 => asistencia.horas_extras = 30
        /\ EtiquetaA(1140, "SALIDA")
        /\ EtiquetaA(1141, "HORAS_EXTRAS")
        /\ EtiquetaA(420, "HORAS_EXTRAS")
        /\ momento.minuto = 420 => asistencia.horas_extras = 60

(* C7's case: 19:30 classified on the shift 08:00 - 17:00 *)
C7_Testigo ==
    /\ ClasificadoEnTurnoDeOchoACinco
    /\ momento.minuto = 1170
    /\ asistencia.estado_registro = "HORAS_EXTRAS"

(* C8: when the weekday of the moment is not one of the identity's valid   *)
(* weekdays, resolve returns NotAWorkDay and classify returns HORAS_EXTRAS,*)
(* is_work_day false and the full-day overtime of 8.0 hours, whatever the  *)
(* time of day and the shift.                                              *)
C8_DiaNoLaboral ==
    momento.dia \notin DiasValidos(horario) =>
        /\ turno.resuelto => turno = NotAWorkDay
        /\ asistencia.hecho =>
              /\ asistencia.estado_registro = "HORAS_EXTRAS"
              /\ ~asistencia.es_dia_laboral
              /\ asistencia.horas_extras = 8 * 60

(* C8's case: a classification on a day off, at a time that lies inside    *)
(* the tolerance window of the configured shift                            *)
C8_Testigo ==
    /\ asistencia.hecho
    /\ horario.configurado
    /\ momento.dia \notin horario.dias_laborales
    /\ momento.minuto > horario.hora_entrada
    /\ momento.minuto < horario.hora_entrada + horario.tolerancia

(* C9: on a work day the overtime is 0 exactly when the label is ENTRADA,  *)
(* RETRASO or SALIDA; with HORAS_EXTRAS it is strictly positive, E - t     *)
(* before the entry and t - (X + 2h) after the grace window; it is never   *)
(* negative.                                                               *)
C9_HorasExtras ==
    ClasificadoEnTurno =>
        LET t == momento.minuto
            E == turno.hora_entrada
            limit_exit == turno.hora_salida + 120
            label == asistencia.estado_registro
            extras == asistencia.horas_extras
        IN /\ extras = 0 <=> label \in {"ENTRADA", "RETRASO", "SALIDA"}
           /\ label = "HORAS_EXTRAS" =>
                 /\ extras > 0
                 /\ t < E => extras = E - t
                 /\ t > limit_exit => extras = t - limit_exit
           /\ extras >= 0

(* C9's case: overtime after the grace window of a work day *)
C9_Testigo ==
    /\ ClasificadoEnTurno
    /\ asistencia.estado_registro = "HORAS_EXTRAS"
    /\ momento.minuto > turno.hora_salida + 120
    /\ asistencia.horas_extras = momento.minuto - turno.hora_salida - 120

----------------------------------------------------------------------------
(* The enrolled rows whose vector is the query itself *)
Iguales(e) == {f \in vectores : f.vector = e}

(* C11: the candidate on which the decision is made is a record of maximal *)
(* similarity over all the enrolled records: the similarity recognize      *)
(* reports is the maximum, an accepted identity owns a record of maximal   *)
(* similarity, and /clasificar finds no match only when no record exceeds  *)
(* the threshold; when the query equals an enrolled vector the similarity  *)
(* is 1.0 and the accepted identity owns a record of similarity 1.0.       *)
C11_CandidatoDeMaximaSimilitud ==
    \A i \in DOMAIN respuestas :
        LET r == respuestas[i]
            e == r.imagen.embedding
        IN (Decidio(r) /\ vectores # {}) =>
            /\ r.via = "recognize" => r.similitud = MejorSimilitud(e)
            /\ Acepta(r) =>
                  /\ r.similitud = MejorSimilitud(e)
                  /\ \E f \in Mejores(e) : f.id_persona = r.id_persona
            /\ (r.via = "clasificar" /\ ~Acepta(r)) => MejorSimilitud(e) <= r.umbral
            /\ Iguales(e) # {} =>
                  /\ MejorSimilitud(e) = 100
                  /\ r.umbral < 100 =>
                        /\ Acepta(r)
                        /\ r.similitud = 100
                        /\ \E f \in vectores :
                              /\ cosine_similarity(e, f.vector) = 100
                              /\ f.id_persona = r.id_persona

(* C11's case: the query equals the vector of one identity while another   *)
(* identity has a less similar vector enrolled, and the cycle decided      *)
C11_Testigo ==
    \E i \in DOMAIN respuestas :
        LET r == respuestas[i]
            e == r.imagen.embedding
        IN /\ Acepta(r)
           /\ Iguales(e) # {}
           /\ \E f \in vectores :
                 /\ cosine_similarity(e, f.vector) < 100
                 /\ f.id_persona # r.id_persona
           /\ r.similitud = 100

----------------------------------------------------------------------------
(* C15: the access history is an append-only audit trail: whatever cycle   *)
(* or history read runs, every access record already written is still     *)
(* there afterwards, with the same field values.                           *)
C15_HistorialSoloCrece ==
    [][\A id \in DOMAIN historial :
          /\ id \in DOMAIN historial'
          /\ historial'[id] = historial[id]]_vars

(* C15's case: a record was written and a later cycle wrote another one *)
C15_Testigo ==
    /\ Len(historial) = 2
    /\ Len(respuestas) = 2
    /\ respuestas[1].registros = 1
    /\ respuestas[2].registros = 1
    /\ historial[1] # historial[2]

----------------------------------------------------------------------------
(* C12: the match decision is deterministic under ties: two cycles with    *)
(* the same query, the same threshold and the same enrolled records choose *)
(* the same identity, whatever the order in which the storage returns the  *)
(* records.                                                                *)
C12_DecisionDeterminista ==
    \A i, j \in DOMAIN respuestas :
        LET r1 == respuestas[i]
            r2 == respuestas[j]
        IN (/\ r1.via = r2.via
            /\ r1.imagen = r2.imagen
            /\ r1.umbral = r2.umbral
            /\ Decidio(r1) /\ Decidio(r2)) =>
            r1.id_persona = r2.id_persona

(* C13: recognition requests are independent: a request on a face image    *)
(* that meets no storage fault of its own is decided on its own image,     *)
(* threshold and the enrolled records, whatever happened to the requests   *)
(* before it.                                                              *)
C13_PeticionesIndependientes ==
    \A i \in DOMAIN respuestas :
        LET r == respuestas[i] IN
        (r.via = "clasificar" /\ r.imagen.tipo = "rostro" /\ ~r.fallo) =>
            Decidio(r)

(* C14: the pipeline fails closed: a classification on a malformed shift   *)
(* (exit not after entry) ends in an error, never in one of the attendance *)
(* labels.                                                                 *)
C14_TurnoMalformadoFallaCerrado ==
    (/\ asistencia.hecho
     /\ turno.laboral
     /\ turno.hora_salida <= turno.hora_entrada) =>
        asistencia.estado_registro \notin
            {"ENTRADA", "RETRASO", "SALIDA", "HORAS_EXTRAS"}

(* C16: in every access record the confidence is null or lies in [0, 1] *)
C16_ConfianzaEnRango ==
    \A id \in DOMAIN historial :
        \/ historial[id].confianza = None
        \/ (0 <= historial[id].confianza /\ historial[id].confianza <= 100)

(* C17: once a call of /clasificar is over, whatever its outcome, the      *)
(* temporary image file it created no longer exists.                       *)
C17_TemporalBorrado ==
    \A i \in DOMAIN respuestas :
        respuestas[i].via = "clasificar" => i \notin temporales

====
